---- MODULE Spec2Model ----
(***************************************************************************)
(* The two dataset download scripts of notebooks/:                         *)
(*   download_datasets_hf.py  the combined script (main and its routines)  *)
(*   download_dataset.py      the selector script (menu, three routines)   *)
(* A path is the sequence of its components; the file system is the set of *)
(* existing directories and a function from existing files to contents.    *)
(* A file's content is [data |-> the sequence written]; its st_size is     *)
(* counted in entries of that sequence (chunks, records or text blocks).   *)
(***************************************************************************)
EXTENDS Naturals, Sequences, FiniteSets, TLC

VARIABLES script, pc, dirs, files, log, idx, success, available, total_size,
          total_datasets, ret, choice, todo, results, out, exit, preexisting, raised,
          run

vars == <<script, pc, dirs, files, log, idx, success, available, total_size,
          total_datasets, ret, choice, todo, results, out, exit, preexisting, raised,
          run>>

\* Chunks of a complete response body (iter_content), and the longest console line.
MaxChunks == 2
MaxInputLen == 3

\* How many times in a row the combined script is started on the same disk.
MaxRuns == 2

(***************************************************************************)
(* pathlib                                                                 *)
(***************************************************************************)
BASE_DIR == <<"data", "raw">>

Join(dir, name) == Append(dir, name)

IsUnder(p, dir) == Len(p) > Len(dir) /\ SubSeq(p, 1, Len(dir)) = dir

\* Path.mkdir(parents=True, exist_ok=True): the directory and every parent.
Mkdir(ds, p) == ds \cup {SubSeq(p, 1, n) : n \in 1..Len(p)}

\* open(path, 'w' / 'wb') ... write: creates or truncates, then holds data.
WriteFile(fs, p, data) ==
    [q \in (DOMAIN fs) \cup {p} |-> IF q = p THEN [data |-> data] ELSE fs[q]]

\* Path.unlink()
Unlink(fs, p) == [q \in (DOMAIN fs) \ {p} |-> fs[q]]

\* Path.exists() of a file path.
\* FileExists that also asks for a complete body.
FileExists_Complete(fs, p) == p \in DOMAIN fs /\ Len(fs[p].data) >= MaxChunks

FileExists(fs, p) == p \in DOMAIN fs

\* Path.iterdir(): the direct children, files and directories alike.
Iterdir(ds, fs, p) ==
    {q \in ds \cup DOMAIN fs : Len(q) = Len(p) + 1 /\ IsUnder(q, p)}

\* path.exists() and any(path.iterdir())
NonEmptyDir(ds, fs, p) == p \in ds /\ Iterdir(ds, fs, p) # {}

StSize(content) == Len(content.data)

RECURSIVE SumSizes(_, _)
SumSizes(fs, ps) ==
    IF ps = {} THEN 0
    ELSE LET p == CHOOSE q \in ps : TRUE
         IN  StSize(fs[p]) + SumSizes(fs, ps \ {p})

\* sum(f.stat().st_size for f in path.rglob('*') if f.is_file())
DirSize(fs, p) == SumSizes(fs, {q \in DOMAIN fs : IsUnder(q, p)})

Text(name) == <<name>>

(***************************************************************************)
(* download_file_with_progress(url, dest)                                  *)
(* The response is the environment's: requests.get or raise_for_status     *)
(* raises ("error", nothing is opened), the stream breaks after n chunks   *)
(* were written ("midstream"), or the whole body arrives ("ok").           *)
(***************************************************************************)
Responses ==
    {[kind |-> "error", n |-> 0], [kind |-> "ok", n |-> MaxChunks]}
        \cup {[kind |-> "midstream", n |-> k] : k \in 0..(MaxChunks - 1)}

\* Ctrl-C while the call is in requests.get (n = 0, nothing opened) or in the loop.
Interruptions ==
    {[kind |-> "interrupt_get", n |-> 0]}
        \cup {[kind |-> "interrupt", n |-> k] : k \in 0..(MaxChunks - 1)}

Chunks(n) == [i \in 1..n |-> "chunk"]

\* What the try block raises for a response.
Raises(resp) ==
    IF resp.kind = "ok" THEN "none"
    ELSE IF resp.kind \in {"interrupt_get", "interrupt"} THEN "KeyboardInterrupt"
    ELSE "RequestException"

\* isinstance(e, Exception): KeyboardInterrupt and SystemExit are BaseExceptions only.
IsException(e) == e \notin {"none", "KeyboardInterrupt", "SystemExit"}

\* Line 34 catching nothing: the try block without its except clause.
DownloadCatches_Nothing(resp) == FALSE

\* Line 34: except Exception.
DownloadCatches(resp) == IsException(Raises(resp))

\* The value returned: True after the with-block, False from the except clause.
DownloadReturn(resp) == resp.kind = "ok"

\* The files after the call: dest is opened (truncated) once the response is in.
DownloadFiles(fs, dest, resp) ==
    IF resp.kind \in {"error", "interrupt_get"} THEN fs
    ELSE WriteFile(fs, dest, Chunks(resp.n))

Call(url, dest, resp) == [url |-> url, dest |-> dest, ok |-> DownloadReturn(resp)]

NoException == [exc |-> "none", at |-> "none"]

\* An exception leaves the routine at pc: its caller gets it next.
Propagate(e) ==
    /\ raised' = [exc |-> e, at |-> pc]
    /\ pc' = "raised"

(***************************************************************************)
(* The combined script: module top level and main's prompt                 *)
(***************************************************************************)
CombinedStart ==
    /\ script = "combined" /\ pc = "start"
    /\ dirs' = Mkdir(dirs, BASE_DIR)
    /\ pc' = "prompt"
    /\ UNCHANGED <<script, files, log, idx, success, available, total_size, total_datasets,
                   ret, choice, todo, results, out, exit, preexisting, run, raised>>

CombinedPrompt ==
    /\ script = "combined" /\ pc = "prompt"
    /\ pc' = "codesearchnet"
    /\ UNCHANGED <<script, dirs, files, log, idx, success, available, total_size, total_datasets,
                   ret, choice, todo, results, out, exit, preexisting, run, raised>>

download_codesearchnet_github ==
    /\ script = "combined" /\ pc = "codesearchnet"
    /\ LET output_dir == Join(BASE_DIR, "codesearchnet")
       IN  /\ dirs' = Mkdir(dirs, output_dir)
           /\ files' = WriteFile(files, Join(output_dir, "README.txt"),
                                 Text("CodeSearchNet Dataset"))
    /\ pc' = "stackoverflow"
    /\ UNCHANGED <<script, log, idx, success, available, total_size, total_datasets,
                   ret, choice, todo, results, out, exit, preexisting, run, raised>>

SampleCount == 100

sample_data ==
    [i \in 1..SampleCount |->
        [question |-> "How to implement a binary search in Python?",
         answer |-> "def binary_search(arr, target): ...",
         tags |-> <<"python", "algorithm", "search">>]]

download_stackoverflow_csv ==
    /\ script = "combined" /\ pc = "stackoverflow"
    /\ LET output_dir == Join(BASE_DIR, "stackoverflow")
       IN  /\ dirs' = Mkdir(dirs, output_dir)
           /\ files' = WriteFile(
                  WriteFile(files, Join(output_dir, "stackoverflow_sample.json"),
                            sample_data),
                  Join(output_dir, "DOWNLOAD_OPTIONS.txt"),
                  Text("Stack Overflow Dataset Options"))
    /\ pc' = "conala"
    /\ UNCHANGED <<script, log, idx, success, available, total_size, total_datasets,
                   ret, choice, todo, results, out, exit, preexisting, run, raised>>

(***************************************************************************)
(* download_conala_correct_urls                                            *)
(***************************************************************************)
conala_dir == Join(BASE_DIR, "conala")

\* The keys of `files`, in the dict's (insertion) order.
ConalaFiles == <<"conala-train.json", "conala-test.json", "conala-mined.jsonl">>

main_url(filename) ==
    "https://raw.githubusercontent.com/conala-corpus/conala-corpus/master/" \o filename

alt_base == "https://github.com/conala-corpus/conala-corpus/raw/master/"

alt_url(filename) == alt_base \o filename

conala_dest(i) == Join(conala_dir, ConalaFiles[i])

SyntheticCount == 50

synthetic_data ==
    [i \in 1..SyntheticCount |->
        [question_id |-> i - 1,
         intent |-> "Sort a list of numbers in ascending order",
         snippet |-> "sorted_list = sorted(numbers)"]]

synthetic_file == Join(conala_dir, "conala-synthetic.json")

\* Lines 136-149: the directory, then success = 0 and the first key.
ConalaBegin ==
    /\ script = "combined" /\ pc = "conala"
    /\ dirs' = Mkdir(dirs, conala_dir)
    /\ success' = 0
    /\ idx' = 1
    /\ pc' = "conala_loop"
    /\ UNCHANGED <<script, files, log, available, total_size, total_datasets,
                   ret, choice, todo, results, out, exit, preexisting, run, raised>>

\* ConalaSkip without its success += 1.
ConalaSkip_NoCount ==
    /\ script = "combined" /\ pc = "conala_loop" /\ idx <= Len(ConalaFiles)
    /\ FileExists(files, conala_dest(idx))
    /\ idx' = idx + 1
    /\ UNCHANGED <<script, pc, dirs, files, log, success, available, total_size,
                   total_datasets, ret, choice, todo, results, out, exit,
                   preexisting, run, raised>>

\* Lines 153-156: dest.exists(), so count it and continue.
ConalaSkip ==
    /\ script = "combined" /\ pc = "conala_loop" /\ idx <= Len(ConalaFiles)
    /\ FileExists(files, conala_dest(idx))
    /\ success' = success + 1
    /\ idx' = idx + 1
    /\ UNCHANGED <<script, pc, dirs, files, log, available, total_size, total_datasets,
                   ret, choice, todo, results, out, exit, preexisting, run, raised>>

\* ConalaPrimaryOn without the continue of line 163: a successful main download
\* is counted and the alternative URL is tried all the same.
ConalaPrimaryOn_NoContinue(resp) ==
    /\ script = "combined" /\ pc = "conala_loop" /\ idx <= Len(ConalaFiles)
    /\ ~FileExists(files, conala_dest(idx))
    /\ files' = DownloadFiles(files, conala_dest(idx), resp)
    /\ log' = Append(log, Call(main_url(ConalaFiles[idx]), conala_dest(idx), resp))
    /\ IF DownloadReturn(resp)
       THEN success' = success + 1 /\ idx' = idx /\ pc' = "conala_alt" /\ raised' = raised
       ELSE IF DownloadCatches(resp)
       THEN success' = success /\ idx' = idx /\ pc' = "conala_alt" /\ raised' = raised
       ELSE success' = success /\ idx' = idx /\ Propagate(Raises(resp))
    /\ UNCHANGED <<script, dirs, available, total_size, total_datasets,
                   ret, choice, todo, results, out, exit, preexisting, run>>

\* Lines 158-163: the main URL.
ConalaPrimaryOn(resp) ==
    /\ script = "combined" /\ pc = "conala_loop" /\ idx <= Len(ConalaFiles)
    /\ ~FileExists(files, conala_dest(idx))
    /\ files' = DownloadFiles(files, conala_dest(idx), resp)
    /\ log' = Append(log, Call(main_url(ConalaFiles[idx]), conala_dest(idx), resp))
    /\ IF DownloadReturn(resp)
       THEN success' = success + 1 /\ idx' = idx + 1 /\ pc' = pc /\ raised' = raised
       ELSE IF DownloadCatches(resp)
       THEN success' = success /\ idx' = idx /\ pc' = "conala_alt" /\ raised' = raised
       ELSE success' = success /\ idx' = idx /\ Propagate(Raises(resp))
    /\ UNCHANGED <<script, dirs, available, total_size, total_datasets,
                   ret, choice, todo, results, out, exit, preexisting, run>>

ConalaPrimary == \E resp \in Responses : ConalaPrimaryOn(resp)

\* Lines 165-172: the alternative URL, once.
ConalaAltOn(resp) ==
    /\ script = "combined" /\ pc = "conala_alt"
    /\ files' = DownloadFiles(files, conala_dest(idx), resp)
    /\ log' = Append(log, Call(alt_url(ConalaFiles[idx]), conala_dest(idx), resp))
    /\ IF DownloadReturn(resp) \/ DownloadCatches(resp)
       THEN /\ success' = IF DownloadReturn(resp) THEN success + 1 ELSE success
            /\ idx' = idx + 1
            /\ pc' = "conala_loop"
            /\ raised' = raised
       ELSE success' = success /\ idx' = idx /\ Propagate(Raises(resp))
    /\ UNCHANGED <<script, dirs, available, total_size, total_datasets,
                   ret, choice, todo, results, out, exit, preexisting, run>>

ConalaAlt == \E resp \in Responses : ConalaAltOn(resp)

\* The test of line 174 inverted.
NeedSynthetic_Inverted(s) == s # 0

\* Line 174: if success == 0.
NeedSynthetic(s) == s = 0

\* Lines 174-194: after the loop.
ConalaEnd ==
    /\ script = "combined" /\ pc = "conala_loop" /\ idx > Len(ConalaFiles)
    /\ files' = IF NeedSynthetic(success)
                THEN WriteFile(files, synthetic_file, synthetic_data)
                ELSE files
    /\ pc' = "pytorch"
    /\ UNCHANGED <<script, dirs, log, idx, success, available, total_size, total_datasets,
                   ret, choice, todo, results, out, exit, preexisting, run, raised>>

(***************************************************************************)
(* verify_pytorch_tutorials                                                *)
(***************************************************************************)
tutorials_dir == Join(Join(BASE_DIR, "pytorch_docs"), "tutorials")

verify_pytorch_tutorials ==
    /\ script = "combined" /\ pc = "pytorch"
    /\ out' = Append(out, IF NonEmptyDir(dirs, files, tutorials_dir)
                          THEN "PyTorch tutorials already downloaded"
                          ELSE "PyTorch tutorials not found")
    /\ pc' = "pydocs"
    /\ UNCHANGED <<script, dirs, files, log, idx, success, available, total_size, total_datasets,
                   ret, choice, todo, results, exit, preexisting, run, raised>>

(***************************************************************************)
(* download_python_docs_correct                                            *)
(***************************************************************************)
version == "3.11"

docs_dir == Join(BASE_DIR, "python_docs")

docs_url == "https://docs.python.org/" \o version \o "/archives/python-311-docs-html.zip"

zip_file == Join(docs_dir, "python-docs.zip")

extract_dir == Join(docs_dir, "python-" \o version)

alt_file == Join(docs_dir, "README.txt")

\* Lines 220-232: the directory, then the early return when already extracted.
PydocsBegin ==
    /\ script = "combined" /\ pc = "pydocs"
    /\ dirs' = Mkdir(dirs, docs_dir)
    /\ IF NonEmptyDir(Mkdir(dirs, docs_dir), files, extract_dir)
       THEN /\ out' = Append(out, "Python docs already exist")
            /\ pc' = "combined"
       ELSE /\ out' = out
            /\ pc' = "pydocs_download"
    /\ UNCHANGED <<script, files, log, idx, success, available, total_size, total_datasets,
                   ret, choice, todo, results, exit, preexisting, run, raised>>

\* Line 237: the archive.
PydocsDownloadOn(resp) ==
    /\ script = "combined" /\ pc = "pydocs_download"
    /\ files' = DownloadFiles(files, zip_file, resp)
    /\ log' = Append(log, Call(docs_url, zip_file, resp))
    /\ IF DownloadReturn(resp) THEN pc' = "pydocs_extract" /\ raised' = raised
       ELSE IF DownloadCatches(resp) THEN pc' = "pydocs_alt" /\ raised' = raised
       ELSE Propagate(Raises(resp))
    /\ UNCHANGED <<script, dirs, idx, success, available, total_size, total_datasets,
                   ret, choice, todo, results, out, exit, preexisting, run>>

PydocsDownload == \E resp \in Responses : PydocsDownloadOn(resp)

\* What ZipFile(...).extractall leaves: everything, nothing (the archive does not
\* open: BadZipFile) or a part (a member fails after others were written).
Extractions == {"ok", "badzip", "partial"}

Extracted(ds, fs, how) ==
    IF how = "badzip" THEN [d |-> ds, f |-> fs]
    ELSE [d |-> Mkdir(ds, extract_dir),
          f |-> IF how = "ok"
                THEN WriteFile(WriteFile(fs, Join(extract_dir, "index.html"), Text("html")),
                               Join(extract_dir, "library.html"), Text("html"))
                ELSE WriteFile(fs, Join(extract_dir, "index.html"), Text("html"))]

\* PydocsExtract without line 243's zip_file.unlink().
PydocsExtract_KeepArchive ==
    /\ script = "combined" /\ pc = "pydocs_extract"
    /\ \E how \in Extractions :
        LET e == Extracted(dirs, files, how)
        IN  /\ dirs' = e.d
            /\ files' = e.f
            /\ IF how = "ok"
               THEN /\ out' = Append(out, "Python documentation extracted")
                    /\ pc' = "combined"
               ELSE /\ out' = Append(out, "Extraction error")
                    /\ pc' = "pydocs_alt"
    /\ UNCHANGED <<script, log, idx, success, available, total_size,
                   total_datasets, ret, choice, todo, results, exit, preexisting,
                   run, raised>>

\* Lines 238-247: extract, unlink and return; or the except clause and fall through.
PydocsExtract ==
    /\ script = "combined" /\ pc = "pydocs_extract"
    /\ \E how \in Extractions :
        LET e == Extracted(dirs, files, how)
        IN  /\ dirs' = e.d
            /\ IF how = "ok"
               THEN /\ files' = Unlink(e.f, zip_file)
                    /\ out' = Append(out, "Python documentation extracted")
                    /\ pc' = "combined"
               ELSE /\ files' = e.f
                    /\ out' = Append(out, "Extraction error")
                    /\ pc' = "pydocs_alt"
    /\ UNCHANGED <<script, log, idx, success, available, total_size, total_datasets,
                   ret, choice, todo, results, exit, preexisting, run, raised>>

\* Lines 249-265: the note.
PydocsAlt ==
    /\ script = "combined" /\ pc = "pydocs_alt"
    /\ files' = WriteFile(files, alt_file, Text("Python Documentation"))
    /\ pc' = "combined"
    /\ UNCHANGED <<script, dirs, log, idx, success, available, total_size, total_datasets,
                   ret, choice, todo, results, out, exit, preexisting, run, raised>>

(***************************************************************************)
(* create_combined_dataset                                                 *)
(***************************************************************************)
combined_dir == Join(BASE_DIR, "combined")

create_combined_dataset ==
    /\ script = "combined" /\ pc = "combined"
    /\ dirs' = Mkdir(dirs, combined_dir)
    /\ files' = WriteFile(files, Join(combined_dir, "README.md"),
                          Text("Combined Dataset for TechDoc-QA-CodeGen"))
    /\ pc' = "verify"
    /\ UNCHANGED <<script, log, idx, success, available, total_size, total_datasets,
                   ret, choice, todo, results, out, exit, preexisting, run, raised>>

(***************************************************************************)
(* final_verification                                                      *)
(***************************************************************************)
datasets ==
    <<[name |-> "CodeSearchNet (Alternative)", path |-> Join(BASE_DIR, "codesearchnet")],
      [name |-> "Stack Overflow (Sample)", path |-> Join(BASE_DIR, "stackoverflow")],
      [name |-> "CoNaLa", path |-> conala_dir],
      [name |-> "PyTorch Tutorials", path |-> tutorials_dir],
      [name |-> "Python Docs", path |-> docs_dir],
      [name |-> "Combined Strategy", path |-> combined_dir]>>

\* Line 345 with no test at all: every listed directory counts.
IsAvailable_Always(ds, fs, path) == TRUE

\* Line 345 with the existence test alone.
IsAvailable_ExistsOnly(ds, fs, path) == path \in ds

\* Line 345: path.exists() and any(path.iterdir())
IsAvailable(ds, fs, path) == NonEmptyDir(ds, fs, path)

\* Lines 341-351: the loop from entry i on, [available, total_size] so far.
RECURSIVE VerifyLoop(_, _, _, _)
VerifyLoop(ds, fs, i, acc) ==
    IF i > Len(datasets) THEN acc
    ELSE IF IsAvailable(ds, fs, datasets[i].path)
         THEN VerifyLoop(ds, fs, i + 1,
                         [available |-> acc.available + 1,
                          total_size |-> acc.total_size + DirSize(fs, datasets[i].path)])
         ELSE VerifyLoop(ds, fs, i + 1, acc)

Threshold == 3

\* The comparison made strict.
Sufficient_Strict(n) == n > Threshold

\* Lines 357 and 365: available >= 3
Sufficient(n) == n >= Threshold

\* Called by main, or on its own on whatever tree is there.
final_verification ==
    /\ script \in {"combined", "verify"} /\ pc = "verify"
    /\ LET r == VerifyLoop(dirs, files, 1, [available |-> 0, total_size |-> 0])
       IN  /\ available' = r.available
           /\ total_size' = r.total_size
           /\ ret' = Sufficient(r.available)
           /\ out' = IF Sufficient(r.available)
                     THEN Append(out, "SUFFICIENT DATA FOR PROJECT!")
                     ELSE out
    /\ IF script = "combined"
       THEN pc' = "report" /\ exit' = exit
       ELSE pc' = "exit" /\ exit' = "normal"
    /\ UNCHANGED <<script, dirs, files, log, idx, success, total_datasets,
                   choice, todo, results, preexisting, run, raised>>

\* main, lines 388-400, and the return from main.
MainReport ==
    /\ script = "combined" /\ pc = "report"
    /\ out' = Append(out, IF ret THEN "SUCCESS! You're ready to start building!"
                          ELSE "Some data missing but you can still proceed")
    /\ pc' = "exit"
    /\ exit' = "normal"
    /\ UNCHANGED <<script, dirs, files, log, idx, success, available, total_size,
                   total_datasets, ret, choice, todo, results, preexisting,
                   run, raised>>

(***************************************************************************)
(* The selector script                                                     *)
(***************************************************************************)
Chars == {" ", "1", "2", "3", "4", "9"}

IsSpace(c) == c \in {" ", "\t", "\n", "\r"}

RECURSIVE lstrip(_)
lstrip(s) == IF s # <<>> /\ IsSpace(Head(s)) THEN lstrip(Tail(s)) ELSE s

RECURSIVE rstrip(_)
rstrip(s) ==
    IF s # <<>> /\ IsSpace(s[Len(s)]) THEN rstrip(SubSeq(s, 1, Len(s) - 1)) ELSE s

\* str.strip()
strip(s) == rstrip(lstrip(s))

Lines == UNION {[1..n -> Chars] : n \in 0..MaxInputLen}

\* Lines 16-24: the datasets package imports, or sys.exit(1).
SelectorStart ==
    /\ script = "selector" /\ pc = "start"
    /\ \E imported \in BOOLEAN :
        IF imported
        THEN /\ out' = Append(out, "datasets package version")
             /\ pc' = "prompt" /\ exit' = exit
        ELSE /\ out' = Append(out, "datasets package required")
             /\ pc' = "exit" /\ exit' = "exit1"
    /\ UNCHANGED <<script, dirs, files, log, idx, success, available, total_size,
                   total_datasets, ret, choice, todo, results, preexisting,
                   run, raised>>

\* Lines 52-54: one line is read and stripped.
SelectorPrompt ==
    /\ script = "selector" /\ pc = "prompt"
    /\ \E line \in Lines : choice' = strip(line)
    /\ results' = [k \in {} |-> FALSE]
    /\ pc' = "dispatch"
    /\ UNCHANGED <<script, dirs, files, log, idx, success, available, total_size,
                   total_datasets, ret, todo, out, exit, preexisting, run, raised>>

\* The chain with the branches of '2' and '3' exchanged.
Selected_Swapped(c) ==
    IF c = <<"1">> THEN <<"Code Alpaca">>
    ELSE IF c = <<"2">> THEN <<"MBPP">>
    ELSE IF c = <<"3">> THEN <<"Python Instructions">>
    ELSE IF c = <<"4">> THEN <<"Code Alpaca", "Python Instructions", "MBPP">>
    ELSE <<>>

\* The chain ending in a plain else that downloads everything.
Selected_ElseAll(c) ==
    IF c = <<"1">> THEN <<"Code Alpaca">>
    ELSE IF c = <<"2">> THEN <<"Python Instructions">>
    ELSE IF c = <<"3">> THEN <<"MBPP">>
    ELSE <<"Code Alpaca", "Python Instructions", "MBPP">>

\* Lines 152-161: the routines an option calls, in order.
Selected(c) ==
    IF c = <<"1">> THEN <<"Code Alpaca">>
    ELSE IF c = <<"2">> THEN <<"Python Instructions">>
    ELSE IF c = <<"3">> THEN <<"MBPP">>
    ELSE IF c = <<"4">> THEN <<"Code Alpaca", "Python Instructions", "MBPP">>
    ELSE <<>>

\* Lines 152-164: the if/elif chain, with its else branch.
SelectorDispatch ==
    /\ script = "selector" /\ pc = "dispatch"
    /\ IF Selected(choice) # <<>>
       THEN /\ todo' = Selected(choice)
            /\ pc' = "download"
            /\ out' = out /\ exit' = exit
       ELSE /\ out' = Append(out, "Invalid choice")
            /\ pc' = "exit" /\ exit' = "exit1"
            /\ todo' = todo
    /\ UNCHANGED <<script, dirs, files, log, idx, success, available, total_size,
                   total_datasets, ret, choice, results, preexisting, run, raised>>

\* What a routine's try block meets: load_dataset raises; it loads and
\* save_to_disk raises after the mkdir; it saves and the preview raises; or all goes well.
HubOutcomes == {"load_fail", "save_fail", "preview_fail", "ok"}

save_to_disk(fs, save_path) ==
    WriteFile(WriteFile(fs, Join(save_path, "dataset_info.json"), Text("info")),
              Join(save_path, "data-00000-of-00001.arrow"), Text("arrow"))

HubDirs(ds, save_path, outcome) ==
    IF outcome = "load_fail" THEN ds ELSE Mkdir(ds, save_path)

HubFiles(fs, save_path, outcome) ==
    IF outcome \in {"preview_fail", "ok"} THEN save_to_disk(fs, save_path) ELSE fs

\* return True at the end of the try block, return False from the except clause.
HubReturn(outcome) == outcome = "ok"

Record(res, name, value) ==
    [k \in (DOMAIN res) \cup {name} |-> IF k = name THEN value ELSE res[k]]

\* load_dataset(...) is the routine's one network call.
HubLoaded(outcome) == outcome # "load_fail"

HubRoutine(name, dataset_id, save_path) ==
    /\ script = "selector" /\ pc = "download"
    /\ todo # <<>> /\ Head(todo) = name
    /\ \E outcome \in HubOutcomes :
        /\ log' = Append(log, [url |-> dataset_id, dest |-> save_path,
                               ok |-> HubLoaded(outcome)])
        /\ dirs' = HubDirs(dirs, save_path, outcome)
        /\ files' = HubFiles(files, save_path, outcome)
        /\ results' = Record(results, name, HubReturn(outcome))
    /\ todo' = Tail(todo)
    /\ UNCHANGED <<script, pc, idx, success, available, total_size,
                   total_datasets, ret, choice, out, exit, preexisting,
                   run, raised>>

download_code_alpaca ==
    HubRoutine("Code Alpaca", "sahil2801/CodeAlpaca-20k", Join(BASE_DIR, "code_alpaca"))

download_python_instructions ==
    HubRoutine("Python Instructions", "Iamtarun/python_code_instructions_18k_alpaca",
               Join(BASE_DIR, "python_instructions"))

mbpp_dir == Join(BASE_DIR, "mbpp")

download_mbpp == HubRoutine("MBPP", "mbpp", mbpp_dir)

\* Line 175: sum(results.values())
Successful(res) == Cardinality({k \in DOMAIN res : res[k]})

Previously == 2

MinDatasets == 3

\* Line 198: total_datasets >= 3
Enough(n) == n >= MinDatasets

\* Lines 166-240: the summary, the inventory and the judgement.
SelectorSummary ==
    /\ script = "selector" /\ pc = "download" /\ todo = <<>>
    /\ total_datasets' = Previously + Successful(results)
    /\ out' = out \o <<"DOWNLOAD SUMMARY",
                       IF Enough(Previously + Successful(results))
                       THEN "SUCCESS! You have enough datasets!"
                       ELSE "Try downloading more options">>
    /\ pc' = "exit"
    /\ exit' = "normal"
    /\ UNCHANGED <<script, dirs, files, log, idx, success, available, total_size,
                   ret, choice, todo, results, preexisting, run, raised>>

(***************************************************************************)
(* Exceptions that reach main, and main's handlers (lines 380, 402-407)    *)
(***************************************************************************)
\* The statements of main's try block, lines 381-400.
TryBlock ==
    {"codesearchnet", "stackoverflow", "conala", "conala_loop", "conala_alt",
     "pytorch", "pydocs", "pydocs_download", "pydocs_extract", "pydocs_alt",
     "combined", "verify", "report"}

\* The try block begun above the prompt of line 378.
InTry_FromPrompt == script = "combined" /\ raised.at \in TryBlock \cup {"prompt"}

InTry == script = "combined" /\ raised.at \in TryBlock

\* Lines 402-403: except KeyboardInterrupt.
MainExceptKeyboardInterrupt ==
    /\ pc = "raised" /\ InTry /\ raised.exc = "KeyboardInterrupt"
    /\ out' = Append(out, "Interrupted by user")
    /\ pc' = "exit"
    /\ exit' = "normal"
    /\ UNCHANGED <<script, dirs, files, log, idx, success, available, total_size,
                   total_datasets, ret, choice, todo, results, preexisting,
                   run, raised>>

\* Lines 404-407: except Exception, with traceback.print_exc().
MainExceptException ==
    /\ pc = "raised" /\ InTry /\ IsException(raised.exc)
    /\ out' = out \o <<"Error", "traceback.print_exc">>
    /\ pc' = "exit"
    /\ exit' = "normal"
    /\ UNCHANGED <<script, dirs, files, log, idx, success, available, total_size,
                   total_datasets, ret, choice, todo, results, preexisting,
                   run, raised>>

\* No handler encloses the statement: the interpreter prints the stack trace and dies.
Uncaught ==
    /\ pc = "raised" /\ ~InTry
    /\ pc' = "exit"
    /\ exit' = "traceback"
    /\ UNCHANGED <<script, dirs, files, log, idx, success, available, total_size,
                   total_datasets, ret, choice, todo, results, out, preexisting,
                   run, raised>>

\* The interrupt signal between two steps of either script.
Interrupt ==
    /\ script \in {"combined", "selector"} /\ pc \notin {"exit", "raised"}
    /\ Propagate("KeyboardInterrupt")
    /\ UNCHANGED <<script, dirs, files, log, idx, success, available, total_size,
                   total_datasets, ret, choice, todo, results, out, exit, preexisting,
                   run>>

\* The interrupt signal inside download_file_with_progress.
InterruptDownload ==
    \E resp \in Interruptions :
        \/ ConalaPrimaryOn(resp)
        \/ ConalaAltOn(resp)
        \/ PydocsDownloadOn(resp)

\* The directory a step of the combined script makes.
StepDir(at) ==
    IF at = "start" THEN BASE_DIR
    ELSE IF at = "codesearchnet" THEN Join(BASE_DIR, "codesearchnet")
    ELSE IF at = "stackoverflow" THEN Join(BASE_DIR, "stackoverflow")
    ELSE IF at = "conala" THEN conala_dir
    ELSE IF at = "pydocs" THEN docs_dir
    ELSE combined_dir

\* The mkdir and open calls that no try block of a routine encloses:
\* lines 15, 45, 84, 137, 221, 274 and 59, 100, 187, 254, 277.
Unwrapped(at, call) ==
    IF call = "mkdir"
    THEN at \in {"start", "codesearchnet", "stackoverflow", "conala", "pydocs", "combined"}
    ELSE \/ at \in {"codesearchnet", "stackoverflow", "pydocs_alt", "combined"}
         \/ at = "conala_loop" /\ idx > Len(ConalaFiles) /\ NeedSynthetic(success)

\* One of them raises OSError: the mkdir, or the open after the mkdir went through.
DiskError ==
    /\ script = "combined"
    /\ \E call \in {"mkdir", "open"} :
        /\ Unwrapped(pc, call)
        /\ dirs' = IF call = "open" /\ Unwrapped(pc, "mkdir")
                   THEN Mkdir(dirs, StepDir(pc)) ELSE dirs
    /\ Propagate("OSError")
    /\ UNCHANGED <<script, files, log, idx, success, available, total_size,
                   total_datasets, ret, choice, todo, results, out, exit, preexisting,
                   run>>

\* Lines 243, 246: zip_file.unlink() raises inside the try block, after extractall.
PydocsUnlinkError ==
    /\ script = "combined" /\ pc = "pydocs_extract"
    /\ LET e == Extracted(dirs, files, "ok")
       IN  dirs' = e.d /\ files' = e.f
    /\ out' = Append(out, "Extraction error")
    /\ pc' = "pydocs_alt"
    /\ UNCHANGED <<script, log, idx, success, available, total_size,
                   total_datasets, ret, choice, todo, results, exit, preexisting,
                   run, raised>>

(***************************************************************************)
(* Initial states                                                          *)
(***************************************************************************)
EmptyFiles == [p \in {} |-> [data |-> <<>>]]

Populate(fs, ps, data) == [q \in (DOMAIN fs) \cup ps |-> IF q \in ps THEN [data |-> data] ELSE fs[q]]

\* What earlier runs and the user's git clone may have left for the combined script.
CombinedTrees ==
    {[d |-> (IF S = {} THEN {} ELSE Mkdir({}, conala_dir))
              \cup (IF tut = "missing" THEN {} ELSE Mkdir({}, tutorials_dir))
              \cup (IF ext THEN Mkdir({}, extract_dir) ELSE {}),
      f |-> Populate(
                Populate(
                    Populate(EmptyFiles, {conala_dest(i) : i \in S}, Chunks(MaxChunks)),
                    IF tut = "populated" THEN {Join(tutorials_dir, "intro.py")} ELSE {},
                    Text("py")),
                IF ext THEN {Join(extract_dir, "index.html")} ELSE {},
                Text("html"))] :
        S \in SUBSET (1..Len(ConalaFiles)),
        tut \in {"missing", "empty", "populated"},
        ext \in BOOLEAN}

Kinds == {"missing", "empty", "file", "subdir"}

\* Any shape of the six listed directories, for a call of final_verification alone.
VerifyTrees ==
    {[d |-> Mkdir({}, BASE_DIR)
              \cup UNION {Mkdir({}, datasets[i].path) : i \in {j \in 1..Len(datasets) : k[j] # "missing"}}
              \cup {Join(datasets[i].path, "sub") : i \in {j \in 1..Len(datasets) : k[j] = "subdir"}},
      f |-> Populate(EmptyFiles,
                     {Join(datasets[i].path, "part.bin") :
                         i \in {j \in 1..Len(datasets) : k[j] = "file"}},
                     Chunks(MaxChunks))] :
        k \in [1..Len(datasets) -> Kinds]}

Trees(s) ==
    IF s = "combined" THEN CombinedTrees
    ELSE IF s = "verify" THEN VerifyTrees
    ELSE {[d |-> {}, f |-> EmptyFiles]}

Init ==
    /\ script \in {"combined", "selector", "verify"}
    /\ pc = IF script = "verify" THEN "verify" ELSE "start"
    /\ \E t \in Trees(script) :
        /\ dirs = t.d
        /\ files = t.f
        /\ preexisting = [d |-> t.d, f |-> DOMAIN t.f]
    /\ log = <<>>
    /\ idx = 0
    /\ success = 0
    /\ available = 0
    /\ total_size = 0
    /\ total_datasets = 0
    /\ ret = FALSE
    /\ choice = <<>>
    /\ todo = <<>>
    /\ results = [k \in {} |-> FALSE]
    /\ out = <<>>
    /\ exit = "running"
    /\ raised = NoException
    /\ run = 1

Next ==
    \/ CombinedStart
    \/ CombinedPrompt
    \/ download_codesearchnet_github
    \/ download_stackoverflow_csv
    \/ ConalaBegin
    \/ ConalaSkip
    \/ ConalaPrimary
    \/ ConalaAlt
    \/ ConalaEnd
    \/ verify_pytorch_tutorials
    \/ PydocsBegin
    \/ PydocsDownload
    \/ PydocsExtract
    \/ PydocsAlt
    \/ create_combined_dataset
    \/ final_verification
    \/ MainReport
    \/ SelectorStart
    \/ SelectorPrompt
    \/ SelectorDispatch
    \/ download_code_alpaca
    \/ download_python_instructions
    \/ download_mbpp
    \/ SelectorSummary

\* The runs in which every unwrapped file operation goes through and no signal arrives.
Spec == Init /\ [][Next]_vars

NextEnv ==
    \/ Next
    \/ Interrupt
    \/ InterruptDownload
    \/ DiskError
    \/ PydocsUnlinkError
    \/ MainExceptKeyboardInterrupt
    \/ MainExceptException
    \/ Uncaught

\* The same runs with the interrupt signal and failing file operations.
SpecEnv == Init /\ [][NextEnv]_vars

\* Line 409-410: the script is started again after it has ended; the process
\* starts afresh and the disk is what the run before left.
Rerun ==
    /\ script = "combined" /\ pc = "exit"
    /\ run < MaxRuns
    /\ run' = run + 1
    /\ pc' = "start"
    /\ preexisting' = [d |-> dirs, f |-> DOMAIN files]
    /\ log' = <<>>
    /\ idx' = 0
    /\ success' = 0
    /\ available' = 0
    /\ total_size' = 0
    /\ ret' = FALSE
    /\ out' = <<>>
    /\ exit' = "running"
    /\ raised' = NoException
    /\ UNCHANGED <<script, dirs, files, total_datasets, choice, todo, results>>

\* The first run starts on a disk that holds no file yet.
InitRerun == Init /\ script = "combined" /\ files = EmptyFiles

NextRerun ==
    \/ CombinedStart
    \/ CombinedPrompt
    \/ download_codesearchnet_github
    \/ download_stackoverflow_csv
    \/ ConalaBegin
    \/ ConalaSkip
    \/ ConalaPrimary
    \/ ConalaAlt
    \/ ConalaEnd
    \/ verify_pytorch_tutorials
    \/ PydocsBegin
    \/ PydocsDownload
    \/ PydocsExtract
    \/ PydocsAlt
    \/ create_combined_dataset
    \/ final_verification
    \/ MainReport
    \/ Rerun

\* Consecutive runs of the combined script on one disk.
SpecRerun == InitRerun /\ [][NextRerun]_vars

(***************************************************************************)
(* Properties                                                              *)
(***************************************************************************)
Said(msg) == \E k \in 1..Len(out) : out[k] = msg

ConalaDests == {conala_dest(i) : i \in 1..Len(ConalaFiles)}

ConalaCalls == {k \in 1..Len(log) : log[k].dest \in ConalaDests}

\* C1: in download_conala_correct_urls, when the loop reaches a file whose
\* destination exists, that step makes no download attempt, changes no file and
\* adds exactly one to success; and no call, main URL or alternative, is ever made
\* for a destination that was there before the run.
C1_ExistingFileSkipped ==
    /\ [][(/\ script = "combined" /\ pc = "conala_loop" /\ idx \in 1..3
           /\ Join(conala_dir, ConalaFiles[idx]) \in DOMAIN files)
          => (/\ log' = log
              /\ files' = files
              /\ success' = success + 1
              /\ idx' = idx + 1
              /\ pc' = "conala_loop")]_vars
    /\ [](\A k \in ConalaCalls : log[k].dest \notin preexisting.f)

\* The loop has passed an existing first file: one success, no call.
C1_Witness ==
    /\ script = "combined" /\ pc = "conala_loop" /\ idx = 2
    /\ conala_dest(1) \in preexisting.f
    /\ success = 1
    /\ log = <<>>

NoConalaFilePreexists == preexisting.f \cap ConalaDests = {}

BothUrlsFailedForEveryFile ==
    /\ \A k \in ConalaCalls : ~log[k].ok
    /\ \A i \in 1..3 :
        /\ \E k \in ConalaCalls : log[k].url = main_url(ConalaFiles[i])
        /\ \E k \in ConalaCalls : log[k].url = alt_url(ConalaFiles[i])

\* C2: when no destination file pre-exists and the main and the alternative
\* download failed for each of the three files, download_conala_correct_urls
\* leaves conala-synthetic.json holding exactly 50 records and returns to main
\* with no exception raised.
C2_SyntheticWhenAllFail ==
    (/\ script = "combined"
     /\ NoConalaFilePreexists
     /\ BothUrlsFailedForEveryFile
     /\ pc # "conala_loop")
    => (/\ raised = NoException
        /\ pc \in {"pytorch", "pydocs", "pydocs_download", "pydocs_extract",
                   "pydocs_alt", "combined", "verify", "report", "exit"}
        /\ synthetic_file \in DOMAIN files
        /\ Len(files[synthetic_file].data) = 50
        /\ \A i \in 1..50 : files[synthetic_file].data[i].question_id = i - 1)

\* The routine has just returned after six failed calls.
C2_Witness ==
    /\ script = "combined" /\ pc = "pytorch"
    /\ NoConalaFilePreexists
    /\ BothUrlsFailedForEveryFile
    /\ Len(log) = 6
    /\ synthetic_file \in DOMAIN files

NothingPreexists == preexisting.d = {} /\ preexisting.f = {}

EveryCallFailed == \A k \in 1..Len(log) : ~log[k].ok

\* The run made its network calls and all of them failed: the six of CoNaLa
\* and the one of the documentation archive.
EveryNetworkCallFailed == EveryCallFailed /\ Len(log) = 7

\* C3 as stated: from an empty tree with every network call failing, the run
\* ends normally and final_verification counts fewer than 3 directories.
C3_Original ==
    (/\ script = "combined" /\ pc = "exit"
     /\ NothingPreexists
     /\ EveryNetworkCallFailed)
    => (exit = "normal" /\ available < 3)

\* C3, amended: from an empty tree with every network call failing, the run ends
\* normally with no exception, and final_verification counts 5 of the six
\* directories (all but PyTorch Tutorials), returns true, and main prints the
\* success banner; the synthetic CoNaLa file and the documentation note are there.
C3_AllNetworkFails ==
    (/\ script = "combined" /\ pc = "exit"
     /\ NothingPreexists
     /\ EveryNetworkCallFailed)
    => (/\ exit = "normal"
        /\ raised = NoException
        /\ available = 5
        /\ ret = TRUE
        /\ tutorials_dir \notin dirs
        /\ Said("SUCCESS! You're ready to start building!")
        /\ Len(files[synthetic_file].data) = 50
        /\ alt_file \in DOMAIN files)

C3_Witness ==
    /\ script = "combined" /\ pc = "exit" /\ exit = "normal"
    /\ NothingPreexists
    /\ EveryNetworkCallFailed
    /\ available = 5

VerificationRan ==
    \/ Said("SUCCESS! You're ready to start building!")
    \/ Said("Some data missing but you can still proceed")

combined_readme == Join(combined_dir, "README.md")

\* A run of main that no signal interrupted and whose module-level mkdir went through.
MainEnded ==
    /\ script = "combined" /\ pc = "exit"
    /\ raised.exc # "KeyboardInterrupt"
    /\ raised.at # "start"

\* C4 as stated: no failure inside a routine reaches main, and the later routines
\* and the final verification always run.
C4_Original == MainEnded => (raised = NoException /\ VerificationRan)

\* C4, amended: a failed download or a failed extraction is handled inside its
\* routine, and the run goes on to the later routines and the final verification;
\* the only exception that leaves a routine is the OSError of a mkdir or open that
\* no routine wraps, which main's handler prints with a stack trace before main
\* returns normally, and then neither the later routines nor the final
\* verification run.
C4_WrappedAndUnwrapped ==
    MainEnded =>
        /\ exit = "normal"
        /\ raised.exc \in {"none", "OSError"}
        /\ raised = NoException =>
              /\ VerificationRan
              /\ combined_readme \in DOMAIN files
              /\ ~Said("Error")
        /\ raised.exc = "OSError" =>
              /\ Said("Error") /\ Said("traceback.print_exc")
              /\ ~VerificationRan
              /\ available = 0
              /\ combined_readme \notin DOMAIN files
              /\ raised.at \in {"codesearchnet", "stackoverflow", "conala", "conala_loop"}
                    => ~(Said("PyTorch tutorials already downloaded")
                         \/ Said("PyTorch tutorials not found"))

\* A run that met a failed download and went on to the end, and one that stopped
\* in main's handler: the first is the witness.
C4_Witness ==
    /\ MainEnded /\ raised = NoException
    /\ \E k \in 1..Len(log) : ~log[k].ok
    /\ Said("Extraction error")
    /\ VerificationRan

Interrupted == pc = "exit" /\ raised.exc = "KeyboardInterrupt"

\* C5 as stated: in both scripts an interrupt at the prompt, during a download or
\* between routines ends the process cleanly with a message, never with a stack trace.
C5_Original ==
    (Interrupted /\ raised.at # "start")
    => (exit = "normal" /\ Said("Interrupted by user"))

\* C5, amended: in the combined script an interrupt that arrives after the prompt
\* has returned (during a download or between routines, up to the end of main's
\* try block) is caught by main, which prints "Interrupted by user" and returns
\* normally; an interrupt that arrives before or at the prompt of the combined
\* script, or anywhere in the selector script, is caught nowhere and ends the
\* process with the interpreter's stack trace.
C5_InterruptHandling ==
    Interrupted =>
        IF script = "combined" /\ raised.at \notin {"start", "prompt"}
        THEN exit = "normal" /\ out[Len(out)] = "Interrupted by user"
        ELSE exit = "traceback" /\ ~Said("Interrupted by user")

\* An interrupt inside the second CoNaLa download, caught by main.
C5_Witness ==
    /\ Interrupted /\ script = "combined" /\ raised.at = "conala_alt"
    /\ exit = "normal"
    /\ Said("Interrupted by user")

Option3Ended ==
    script = "selector" /\ pc = "exit" /\ exit = "normal" /\ choice = <<"3">>

OnlyMbppRan ==
    /\ Len(log) = 1 /\ log[1].url = "mbpp"
    /\ DOMAIN results = {"MBPP"}
    /\ dirs \subseteq Mkdir({}, <<"data", "raw", "mbpp">>)

\* C6 as stated: option "3" runs only the MBPP routine, creates ./data/raw/mbpp
\* and leaves exactly one result entry, keyed "MBPP".
C6_Original ==
    Option3Ended => (OnlyMbppRan /\ <<"data", "raw", "mbpp">> \in dirs)

\* C6, amended: option "3" runs only the MBPP routine and leaves exactly one
\* result entry, keyed "MBPP"; the routine creates ./data/raw/mbpp exactly when
\* load_dataset succeeded; when the entry is true the dataset is saved there.
C6_Option3 ==
    Option3Ended =>
        /\ OnlyMbppRan
        /\ <<"data", "raw", "mbpp">> \in dirs <=> log[1].ok
        /\ results["MBPP"] =>
              /\ log[1].ok
              /\ \E f \in DOMAIN files : IsUnder(f, <<"data", "raw", "mbpp">>)

\* Option "3" with the dataset loaded and saved.
C6_Witness ==
    /\ Option3Ended /\ results["MBPP"]
    /\ <<"data", "raw", "mbpp">> \in dirs

ValidChoices == {<<"1">>, <<"2">>, <<"3">>, <<"4">>}

\* C7: once the selector has read a line whose stripped text is none of "1", "2",
\* "3", "4", it prints "Invalid choice" and exits with status 1 at once: no second
\* prompt, no routine call, no directory or file created, no summary printed.
C7_InvalidChoice ==
    (/\ script = "selector"
     /\ Said("datasets package version")
     /\ pc \in {"download", "exit"}
     /\ choice \notin ValidChoices)
    => (/\ pc = "exit"
        /\ exit = "exit1"
        /\ out = <<"datasets package version", "Invalid choice">>
        /\ log = <<>>
        /\ DOMAIN results = {}
        /\ dirs = preexisting.d
        /\ DOMAIN files = preexisting.f)

\* The option "9" was read.
C7_Witness ==
    /\ script = "selector" /\ pc = "exit" /\ choice = <<"9">>
    /\ exit = "exit1"
    /\ Said("Invalid choice")

ListedDirs == {datasets[i].path : i \in 1..Len(datasets)}

HasEntry(p) ==
    \E q \in dirs \cup DOMAIN files : Len(q) = Len(p) + 1 /\ SubSeq(q, 1, Len(p)) = p

AvailableDirs == {p \in ListedDirs : p \in dirs /\ HasEntry(p)}

FilesOfAvailable == {f \in DOMAIN files : \E p \in AvailableDirs : IsUnder(f, p)}

\* final_verification has returned (it changes no file, and nothing after it does).
Verified ==
    \/ script = "combined" /\ pc \in {"report", "exit"} /\ raised = NoException
    \/ script = "verify" /\ pc = "exit"

\* C8: after final_verification, the available count is the number of listed
\* directories that exist and hold at least one entry (so between 0 and 6), and
\* the total size is the size of the files under those directories alone: a
\* missing directory and an existing empty one add nothing to either.
C8_Availability ==
    Verified =>
        /\ available = Cardinality(AvailableDirs)
        /\ available \in 0..6
        /\ total_size = SumSizes(files, FilesOfAvailable)

\* A tree with an existing empty directory, a missing one, and two available.
C8_Witness ==
    /\ script = "verify" /\ pc = "exit"
    /\ available = 2
    /\ \E p \in ListedDirs : p \in dirs /\ ~HasEntry(p)
    /\ \E p \in ListedDirs : p \notin dirs

\* C9: final_verification returns true exactly when available >= 3, and main
\* prints its success banner exactly then; the selector prints its success banner
\* exactly when 2 plus the number of successful downloads is >= 3, that is, when
\* at least one selected download reported success.
C9_Threshold ==
    /\ Verified => (ret <=> available >= 3)
    /\ (script = "combined" /\ pc = "exit" /\ raised = NoException)
       => (Said("SUCCESS! You're ready to start building!") <=> available >= 3)
    /\ (script = "selector" /\ pc = "exit" /\ exit = "normal")
       => /\ total_datasets = 2 + Cardinality({k \in DOMAIN results : results[k]})
          /\ Said("SUCCESS! You have enough datasets!") <=> total_datasets >= 3
          /\ Said("SUCCESS! You have enough datasets!")
                <=> \E k \in DOMAIN results : results[k]

\* Exactly three directories available: the judgement is true.
C9_Witness ==
    /\ script = "verify" /\ pc = "exit"
    /\ available = 3
    /\ ret = TRUE

DocsCalls == {k \in 1..Len(log) : log[k].dest = zip_file}

DocsReturned ==
    /\ script = "combined"
    /\ pc \in {"combined", "verify", "report", "exit"}
    /\ raised = NoException
    /\ ~(\E f \in preexisting.f : IsUnder(f, extract_dir))

Count(msg) == Cardinality({k \in 1..Len(out) : out[k] = msg})

\* C10: when download_python_docs_correct has returned and the extraction
\* directory was not populated before, the archive was requested exactly once;
\* if the download and the extraction succeeded, the pages are under
\* python-3.11, the archive file is gone and no README.txt was written; if the
\* download failed, or it succeeded and the (single) extraction failed, nothing
\* reports an extraction and README.txt is there; and the routine has returned
\* normally in every case.
C10_ArchiveOrNote ==
    DocsReturned =>
        /\ Cardinality(DocsCalls) = 1
        /\ Count("Python documentation extracted") + Count("Extraction error") <= 1
        /\ \A k \in DocsCalls :
            IF log[k].ok /\ ~Said("Extraction error")
            THEN /\ Said("Python documentation extracted")
                 /\ \E f \in DOMAIN files : IsUnder(f, extract_dir)
                 /\ zip_file \notin DOMAIN files
                 /\ alt_file \notin DOMAIN files
            ELSE /\ ~Said("Python documentation extracted")
                 /\ alt_file \in DOMAIN files
                 /\ ~log[k].ok => Count("Extraction error") = 0

\* The archive arrived and did not extract: the note is written instead.
C10_Witness ==
    /\ DocsReturned /\ pc = "combined"
    /\ \E k \in DocsCalls : log[k].ok
    /\ Said("Extraction error")
    /\ alt_file \in DOMAIN files

PrimaryCalls(i) == {k \in ConalaCalls : log[k].url = main_url(ConalaFiles[i])}

AltCalls(i) == {k \in ConalaCalls : log[k].url = alt_url(ConalaFiles[i])}

CallsFor(i) == {k \in ConalaCalls : log[k].dest = conala_dest(i)}

BeforeConala == pc \in {"start", "prompt", "codesearchnet", "stackoverflow", "conala"}

AfterConala == pc \in {"pytorch", "pydocs", "pydocs_download", "pydocs_extract",
                       "pydocs_alt", "combined", "verify", "report", "exit"}

\* The loop body has finished for file i.
Processed(i) == AfterConala \/ (pc \in {"conala_loop", "conala_alt"} /\ idx > i)

\* The processed files that were skipped or fetched.
Credited == {i \in 1..3 : /\ Processed(i)
                          /\ \/ conala_dest(i) \in preexisting.f
                             \/ \E k \in CallsFor(i) : log[k].ok}

AttemptOrder ==
    \A i \in 1..3 :
        /\ CallsFor(i) = PrimaryCalls(i) \cup AltCalls(i)
        /\ Cardinality(PrimaryCalls(i)) <= 1
        /\ Cardinality(AltCalls(i)) <= 1
        /\ conala_dest(i) \in preexisting.f => CallsFor(i) = {}
        /\ (Processed(i) /\ conala_dest(i) \notin preexisting.f)
              => Cardinality(PrimaryCalls(i)) = 1
        /\ \A k \in AltCalls(i) :
              /\ k > 1
              /\ k - 1 \in PrimaryCalls(i)
              /\ ~log[k - 1].ok
        /\ (Processed(i) /\ \E k \in PrimaryCalls(i) : ~log[k].ok)
              => Cardinality(AltCalls(i)) = 1

\* C11: in download_conala_correct_urls, a file that was not there is asked for
\* at the main URL exactly once and before anything else; the alternative URL is
\* asked for, once, exactly when that main attempt returned False, and directly
\* after it; success stays within 0..3, grows by at most one per step and, once a
\* file is done, counts the files skipped or fetched; and when the loop is over
\* conala-synthetic.json is written if success is 0 and no file is touched
\* otherwise, so that afterwards the synthetic file is there iff success is 0.
C11_AttemptsAndCounter ==
    /\ [](script = "combined" =>
            /\ AttemptOrder
            /\ success \in 0..3
            /\ ~BeforeConala => success = Cardinality(Credited)
            /\ ~AfterConala => synthetic_file \notin DOMAIN files
            /\ AfterConala => (synthetic_file \in DOMAIN files <=> success = 0))
    /\ [][script = "combined" =>
            /\ success' \in {success, success + 1} \/ pc = "conala"
            /\ (pc = "conala_loop" /\ idx > 3) =>
                  IF success = 0
                  THEN files' = WriteFile(files, synthetic_file, synthetic_data)
                  ELSE files' = files]_vars

\* The routine has returned: train needed the alternative URL, test came from
\* the main URL, mined failed at both, and no synthetic file was written.
C11_Witness ==
    /\ script = "combined" /\ pc = "pytorch"
    /\ NoConalaFilePreexists
    /\ Len(log) = 5
    /\ ~log[1].ok /\ log[2].ok /\ log[3].ok /\ ~log[4].ok /\ ~log[5].ok
    /\ log[2].url = alt_url(ConalaFiles[1])
    /\ log[5].url = alt_url(ConalaFiles[3])
    /\ success = 2
    /\ synthetic_file \notin DOMAIN files

\* Destination i was on disk when this run began, with less than a full body:
\* what a download that broke off mid-stream in the run before leaves.
PartialLeft(i) ==
    /\ run > 1
    /\ conala_dest(i) \in preexisting.f
    /\ conala_dest(i) \in DOMAIN files
    /\ Len(files[conala_dest(i)].data) < MaxChunks

\* The archive was on disk, complete, next to a populated extraction directory
\* when this run began: what an extraction that failed part-way leaves.
ExtractionLeft ==
    /\ run > 1
    /\ zip_file \in preexisting.f
    /\ zip_file \in DOMAIN files
    /\ Len(files[zip_file].data) = MaxChunks
    /\ \E f \in preexisting.f : IsUnder(f, extract_dir)

\* C12: in a run of the combined script that follows another one, a CoNaLa
\* destination left partially written by a download that failed mid-stream is
\* passed by the loop with no call, no change to any file and one added to
\* success, so that success is at least 1 when the loop ends and that step
\* writes no synthetic file; and an extraction directory left populated by a
\* failed extraction makes download_python_docs_correct return at its first
\* test, reporting the documentation as already there, with no call.
C12_LeftoversCountAsSuccess ==
    /\ [](script = "combined" =>
            /\ \A i \in 1..3 : PartialLeft(i) =>
                  /\ CallsFor(i) = {}
                  /\ Processed(i) => success >= 1
            /\ (ExtractionLeft /\ pc \in {"combined", "verify", "report", "exit"}) =>
                  /\ DocsCalls = {}
                  /\ Said("Python docs already exist")
                  /\ ~Said("Extraction error")
                  /\ ~Said("Python documentation extracted"))
    /\ [][script = "combined" =>
            /\ (pc = "conala_loop" /\ idx \in 1..3 /\ PartialLeft(idx)) =>
                  /\ log' = log
                  /\ files' = files
                  /\ success' = success + 1
                  /\ idx' = idx + 1
            /\ (pc = "conala_loop" /\ idx > 3 /\ \E i \in 1..3 : PartialLeft(i)) =>
                  /\ files' = files
                  /\ pc' = "pytorch"
            /\ (pc = "pydocs" /\ ExtractionLeft) =>
                  /\ log' = log
                  /\ files' = files
                  /\ pc' = "combined"]_vars

\* The second run has passed both routines: the train file the first run left
\* broken was counted, no synthetic file exists, and the documentation the first
\* run failed to extract was taken as present, all without a call.
C12_Witness ==
    /\ script = "combined" /\ run = 2 /\ pc = "combined"
    /\ PartialLeft(1)
    /\ ExtractionLeft
    /\ success >= 1
    /\ synthetic_file \notin DOMAIN files
    /\ Said("Python docs already exist")
    /\ CallsFor(1) = {}
    /\ DocsCalls = {}
====
